---- MODULE Spec2Model ----
(***************************************************************************)
(* Model of Source.cpp: four device classes (LightControl,                 *)
(* ThermostatControl, SmartLockControl, GarageDoorControl) deriving from   *)
(* the CRTP base ElectronicDeviceControl<Derived>, and the test program    *)
(* runTests()/main().                                                      *)
(*                                                                         *)
(* An object is a record of its data members.  A member function is an     *)
(* operator from the receiver (and its argument) to the record             *)
(*   [self |-> the receiver afterwards, cout |-> the lines it wrote],      *)
(* a const query adds  ret |-> the value returned.                         *)
(*                                                                         *)
(* Two drivers use the classes.  harness = "client" is an arbitrary caller *)
(* that invokes turnOn, turnOff and setTemperature on any object, in any   *)
(* order.  harness = "runTests" / "runTests_NDEBUG" is the repository's    *)
(* main(), statement by statement, compiled with assert active or with     *)
(* NDEBUG defined (assert expands to nothing).                             *)
(* Further clients (copying and moving objects, calling doTurnOn/doTurnOff  *)
(* directly, owning one thermostat) have their own specifications below.   *)
(***************************************************************************)
EXTENDS Integers, Sequences, FiniteSets, TLC

VARIABLES dev, out, last, harness, pc, exit

vars == <<dev, out, last, harness, pc, exit>>

\* ------------------------------------------------------------------ bounds

\* Objects of each class the client owns (runTests uses object 1 of each).
NumObjs == 2
\* The client makes at most this many calls.
MaxCalls == 3
\* setTemperature arguments are taken within Margin of each range boundary.
Margin == 1
\* The owner of a single thermostat makes at most this many calls.
MaxCycleCalls == 6

\* ------------------------------------------------------- program constants

\* setTemperature's range check, temp >= 10 && temp <= 30
TempLo == 10
TempHi == 30

Kinds == {"LightControl", "ThermostatControl", "SmartLockControl", "GarageDoorControl"}
Objs == 1..NumObjs
TempInputs == ((TempLo - Margin)..(TempLo + Margin)) \cup ((TempHi - Margin)..(TempHi + Margin)) \cup {25}

\* ------------------------------------------------------------ LightControl

LightControl == [isOn |-> FALSE]

LightControl_doTurnOn(self) ==
    [self |-> [self EXCEPT !.isOn = TRUE], cout |-> <<"Light is ON">>]

\* Mutant: the ON message pasted into doTurnOff.
LightControl_doTurnOff_wrongLine(self) ==
    [self |-> [self EXCEPT !.isOn = FALSE], cout |-> <<"Light is ON">>]

LightControl_doTurnOff(self) ==
    [self |-> [self EXCEPT !.isOn = FALSE], cout |-> <<"Light is OFF">>]

isLightOn(self) ==
    [self |-> self, cout |-> <<>>, ret |-> self.isOn]

\* ------------------------------------------------------- ThermostatControl

\* Mutant: the constructor zero-initialises the temperature.
ThermostatControl_zeroTemp == [isOn |-> FALSE, temperature |-> 0]

ThermostatControl == [isOn |-> FALSE, temperature |-> 20]

\* Mutant: turning on a thermostat that was off re-initialises the temperature.
ThermostatControl_doTurnOn_reinitialises(self) ==
    [self |-> IF self.isOn THEN self ELSE [isOn |-> TRUE, temperature |-> 20],
     cout |-> <<"Thermostat is ON">>]

ThermostatControl_doTurnOn(self) ==
    [self |-> [self EXCEPT !.isOn = TRUE], cout |-> <<"Thermostat is ON">>]

\* Mutant: turning off also resets the temperature to its default.
ThermostatControl_doTurnOff_resetsTemperature(self) ==
    [self |-> [isOn |-> FALSE, temperature |-> 20], cout |-> <<"Thermostat is OFF">>]

ThermostatControl_doTurnOff(self) ==
    [self |-> [self EXCEPT !.isOn = FALSE], cout |-> <<"Thermostat is OFF">>]

\* Mutant: strict comparisons, temp > 10 && temp < 30.
setTemperature_strictRange(self, temp) ==
    IF self.isOn /\ temp > TempLo /\ temp < TempHi
    THEN [self |-> [self EXCEPT !.temperature = temp],
          cout |-> <<"Thermostat temperature set to: " \o ToString(temp)>>]
    ELSE IF ~self.isOn
    THEN [self |-> self, cout |-> <<"Cannot set temperature, thermostat is off.">>]
    ELSE [self |-> self,
          cout |-> <<"Invalid temperature. Temperature must be between 10 and 30.">>]

\* Mutant: the off branch reports the rejection but stores the value all the same.
setTemperature_storesWhenOff(self, temp) ==
    IF self.isOn /\ temp >= TempLo /\ temp <= TempHi
    THEN [self |-> [self EXCEPT !.temperature = temp],
          cout |-> <<"Thermostat temperature set to: " \o ToString(temp)>>]
    ELSE IF ~self.isOn
    THEN [self |-> [self EXCEPT !.temperature = temp],
          cout |-> <<"Cannot set temperature, thermostat is off.">>]
    ELSE [self |-> self,
          cout |-> <<"Invalid temperature. Temperature must be between 10 and 30.">>]

\* Mutant: the range check is made before the off check.
setTemperature_rangeFirst(self, temp) ==
    IF self.isOn /\ temp >= TempLo /\ temp <= TempHi
    THEN [self |-> [self EXCEPT !.temperature = temp],
          cout |-> <<"Thermostat temperature set to: " \o ToString(temp)>>]
    ELSE IF temp < TempLo \/ temp > TempHi
    THEN [self |-> self,
          cout |-> <<"Invalid temperature. Temperature must be between 10 and 30.">>]
    ELSE [self |-> self, cout |-> <<"Cannot set temperature, thermostat is off.">>]

\* Mutant: the upper limit is off by one, temp <= 31.
setTemperature_wideRange(self, temp) ==
    IF self.isOn /\ temp >= TempLo /\ temp <= TempHi + 1
    THEN [self |-> [self EXCEPT !.temperature = temp],
          cout |-> <<"Thermostat temperature set to: " \o ToString(temp)>>]
    ELSE IF ~self.isOn
    THEN [self |-> self, cout |-> <<"Cannot set temperature, thermostat is off.">>]
    ELSE [self |-> self,
          cout |-> <<"Invalid temperature. Temperature must be between 10 and 30.">>]

setTemperature(self, temp) ==
    IF self.isOn /\ temp >= TempLo /\ temp <= TempHi
    THEN [self |-> [self EXCEPT !.temperature = temp],
          cout |-> <<"Thermostat temperature set to: " \o ToString(temp)>>]
    ELSE IF ~self.isOn
    THEN [self |-> self, cout |-> <<"Cannot set temperature, thermostat is off.">>]
    ELSE [self |-> self,
          cout |-> <<"Invalid temperature. Temperature must be between 10 and 30.">>]

getTemperature(self) ==
    [self |-> self, cout |-> <<>>, ret |-> self.temperature]

\* -------------------------------------------------------- SmartLockControl

SmartLockControl == [isLocked |-> TRUE]

\* Mutant: the lock follows the polarity of the other devices (on = TRUE).
SmartLockControl_doTurnOn_samePolarity(self) ==
    [self |-> [self EXCEPT !.isLocked = TRUE], cout |-> <<"Smart Lock is UNLOCKED">>]

SmartLockControl_doTurnOn(self) ==
    [self |-> [self EXCEPT !.isLocked = FALSE], cout |-> <<"Smart Lock is UNLOCKED">>]

SmartLockControl_doTurnOff(self) ==
    [self |-> [self EXCEPT !.isLocked = TRUE], cout |-> <<"Smart Lock is LOCKED">>]

getLockStatus(self) ==
    [self |-> self, cout |-> <<>>, ret |-> self.isLocked]

\* ------------------------------------------------------- GarageDoorControl

GarageDoorControl == [isOpen |-> FALSE]

GarageDoorControl_doTurnOn(self) ==
    [self |-> [self EXCEPT !.isOpen = TRUE], cout |-> <<"Garage Door is OPEN">>]

\* Mutant: doTurnOff prints but forgets the assignment.
GarageDoorControl_doTurnOff_noAssign(self) ==
    [self |-> self, cout |-> <<"Garage Door is CLOSED">>]

GarageDoorControl_doTurnOff(self) ==
    [self |-> [self EXCEPT !.isOpen = FALSE], cout |-> <<"Garage Door is CLOSED">>]

getIsOpen(self) ==
    [self |-> self, cout |-> <<>>, ret |-> self.isOpen]

\* ------------------------------------------ ElectronicDeviceControl<Derived>

\* static_cast<Derived*>(this)->doTurnOn()
turnOn(Derived, self) ==
    CASE Derived = "LightControl" -> LightControl_doTurnOn(self)
      [] Derived = "ThermostatControl" -> ThermostatControl_doTurnOn(self)
      [] Derived = "SmartLockControl" -> SmartLockControl_doTurnOn(self)
      [] Derived = "GarageDoorControl" -> GarageDoorControl_doTurnOn(self)

\* Mutant: turnOff was pasted from turnOn and still calls doTurnOn.
turnOff_callsDoTurnOn(Derived, self) ==
    CASE Derived = "LightControl" -> LightControl_doTurnOn(self)
      [] Derived = "ThermostatControl" -> ThermostatControl_doTurnOn(self)
      [] Derived = "SmartLockControl" -> SmartLockControl_doTurnOn(self)
      [] Derived = "GarageDoorControl" -> GarageDoorControl_doTurnOn(self)

\* static_cast<Derived*>(this)->doTurnOff()
turnOff(Derived, self) ==
    CASE Derived = "LightControl" -> LightControl_doTurnOff(self)
      [] Derived = "ThermostatControl" -> ThermostatControl_doTurnOff(self)
      [] Derived = "SmartLockControl" -> SmartLockControl_doTurnOff(self)
      [] Derived = "GarageDoorControl" -> GarageDoorControl_doTurnOff(self)

\* The default constructor of each class.
Construct(Derived) ==
    CASE Derived = "LightControl" -> LightControl
      [] Derived = "ThermostatControl" -> ThermostatControl
      [] Derived = "SmartLockControl" -> SmartLockControl
      [] Derived = "GarageDoorControl" -> GarageDoorControl

\* ------------------------------------------------------------------- calls

\* One call of a non-const member function on object i of class k: the
\* receiver is updated, the lines written go to the console, and last records
\* the call (seq numbers the calls) together with the receiver as it was
\* before the call.
Invoke(k, op, self, arg) ==
    CASE op = "turnOn" -> turnOn(k, self)
      [] op = "turnOff" -> turnOff(k, self)
      [] op = "setTemperature" -> setTemperature(self, arg)

\* Mutant: the data members are static, shared by all objects of the class.
Call_staticMembers(k, i, op, arg) ==
    LET r == Invoke(k, op, dev[k][i], arg)
    IN  /\ dev' = [dev EXCEPT ![k] = [j \in Objs |-> r.self]]
        /\ out' = out \o r.cout
        /\ last' = [seq |-> last.seq + 1, kind |-> k, idx |-> i, op |-> op, arg |-> arg,
                    pre |-> dev[k][i]]

Call(k, i, op, arg) ==
    LET r == Invoke(k, op, dev[k][i], arg)
    IN  /\ dev' = [dev EXCEPT ![k][i] = r.self]
        /\ out' = out \o r.cout
        /\ last' = [seq |-> last.seq + 1, kind |-> k, idx |-> i, op |-> op, arg |-> arg,
                    pre |-> dev[k][i]]

NoCall == [seq |-> 0, kind |-> "none", idx |-> 0, op |-> "none", arg |-> 0, pre |-> [none |-> TRUE]]

\* ------------------------------------------------------------------ client

ClientTurnOn ==
    /\ harness = "client"
    /\ last.seq < MaxCalls
    /\ \E k \in Kinds, i \in Objs : Call(k, i, "turnOn", 0)
    /\ UNCHANGED <<harness, pc, exit>>

ClientTurnOff ==
    /\ harness = "client"
    /\ last.seq < MaxCalls
    /\ \E k \in Kinds, i \in Objs : Call(k, i, "turnOff", 0)
    /\ UNCHANGED <<harness, pc, exit>>

ClientSetTemperature ==
    /\ harness = "client"
    /\ last.seq < MaxCalls
    /\ \E i \in Objs, temp \in TempInputs : Call("ThermostatControl", i, "setTemperature", temp)
    /\ UNCHANGED <<harness, pc, exit>>

\* ---------------------------------------------------------------- runTests

\* The statements of runTests() and main()'s return, by source line.
Lines == <<227, 228, 230, 231, 233, 234,
           237, 238, 240, 241, 243, 244, 245,
           248, 249, 251, 252, 254, 255,
           258, 259, 261, 262, 264, 265, 271>>

NextLine(l) == Lines[(CHOOSE n \in 1..(Len(Lines) - 1) : Lines[n] = l) + 1]

Stmt(l) ==
    CASE l = 227 -> [op |-> "ctor", kind |-> "LightControl", arg |-> 0]
      [] l = 230 -> [op |-> "turnOn", kind |-> "LightControl", arg |-> 0]
      [] l = 233 -> [op |-> "turnOff", kind |-> "LightControl", arg |-> 0]
      [] l = 237 -> [op |-> "ctor", kind |-> "ThermostatControl", arg |-> 0]
      [] l = 240 -> [op |-> "setTemperature", kind |-> "ThermostatControl", arg |-> 25]
      [] l = 243 -> [op |-> "turnOff", kind |-> "ThermostatControl", arg |-> 0]
      [] l = 244 -> [op |-> "setTemperature", kind |-> "ThermostatControl", arg |-> 30]
      [] l = 248 -> [op |-> "ctor", kind |-> "SmartLockControl", arg |-> 0]
      [] l = 251 -> [op |-> "turnOn", kind |-> "SmartLockControl", arg |-> 0]
      [] l = 254 -> [op |-> "turnOff", kind |-> "SmartLockControl", arg |-> 0]
      [] l = 258 -> [op |-> "ctor", kind |-> "GarageDoorControl", arg |-> 0]
      [] l = 261 -> [op |-> "turnOn", kind |-> "GarageDoorControl", arg |-> 0]
      [] l = 264 -> [op |-> "turnOff", kind |-> "GarageDoorControl", arg |-> 0]
      [] l = 271 -> [op |-> "return", kind |-> "none", arg |-> 0]
      [] OTHER -> [op |-> "assert", kind |-> "none", arg |-> 0]

\* The expression of the assert at line l, on runTests' locals
\* (light, thermostat, lock, garageDoor are object 1 of their class).
AssertQuery(l) ==
    CASE l \in {228, 231, 234} -> isLightOn(dev["LightControl"][1])
      [] l \in {238, 241, 245} -> getTemperature(dev["ThermostatControl"][1])
      [] l \in {249, 252, 255} -> getLockStatus(dev["SmartLockControl"][1])
      [] l \in {259, 262, 265} -> getIsOpen(dev["GarageDoorControl"][1])

AssertExpr(l) ==
    LET r == AssertQuery(l).ret
    IN  CASE l = 228 -> ~r
          [] l = 231 -> r
          [] l = 234 -> ~r
          [] l = 238 -> r = 20
          [] l = 241 -> r = 25
          [] l = 245 -> r = 25
          [] l = 249 -> r = TRUE
          [] l = 252 -> ~r
          [] l = 255 -> r
          [] l = 259 -> ~r
          [] l = 262 -> r
          [] l = 265 -> ~r

InRunTests == harness \in {"runTests", "runTests_NDEBUG"} /\ exit = "running"

\* A declaration `T x;`: the local is default-constructed.
RunTestsDeclare ==
    /\ InRunTests
    /\ Stmt(pc).op = "ctor"
    /\ dev' = [dev EXCEPT ![Stmt(pc).kind][1] = Construct(Stmt(pc).kind)]
    /\ last' = [seq |-> last.seq + 1, kind |-> Stmt(pc).kind, idx |-> 1, op |-> "ctor",
                arg |-> 0, pre |-> [none |-> TRUE]]
    /\ pc' = NextLine(pc)
    /\ UNCHANGED <<out, harness, exit>>

\* A call statement x.turnOn(), x.turnOff() or x.setTemperature(n).
RunTestsCall ==
    /\ InRunTests
    /\ Stmt(pc).op \in {"turnOn", "turnOff", "setTemperature"}
    /\ Call(Stmt(pc).kind, 1, Stmt(pc).op, Stmt(pc).arg)
    /\ pc' = NextLine(pc)
    /\ UNCHANGED <<harness, exit>>

\* assert(e): with NDEBUG nothing is evaluated; otherwise the query in e is
\* called (a const member function: the object is not changed) and a false e
\* aborts the program.
RunTestsAssert ==
    /\ InRunTests
    /\ Stmt(pc).op = "assert"
    /\ IF harness = "runTests_NDEBUG"
       THEN pc' = NextLine(pc) /\ exit' = exit /\ out' = out
       ELSE /\ out' = out \o AssertQuery(pc).cout
            /\ IF AssertExpr(pc)
               THEN pc' = NextLine(pc) /\ exit' = exit
               ELSE pc' = pc /\ exit' = "abort"
    /\ UNCHANGED <<dev, last, harness>>

\* main(): runTests() has returned; return 0.
MainReturn ==
    /\ InRunTests
    /\ Stmt(pc).op = "return"
    /\ exit' = "0"
    /\ UNCHANGED <<dev, out, last, harness, pc>>

\* ----------------------------------------------------------- specification

Init ==
    /\ dev = [k \in Kinds |-> [i \in Objs |-> Construct(k)]]
    /\ out = <<>>
    /\ last = NoCall
    /\ exit = "running"
    /\ \/ harness = "client" /\ pc = 0
       \/ harness \in {"runTests", "runTests_NDEBUG"} /\ pc = Lines[1]

Next ==
    \/ ClientTurnOn
    \/ ClientTurnOff
    \/ ClientSetTemperature
    \/ RunTestsDeclare
    \/ RunTestsCall
    \/ RunTestsAssert
    \/ MainReturn

Spec == Init /\ [][Next]_vars

\* ------------------------------------------------------------ copy and move

\* The copy and move members of each class, as operators from the receiver
\* (for an assignment) and the argument to
\*   [self |-> the constructed or assigned object, other |-> the argument afterwards].

\* LightControl(const LightControl& other)
LightControl_copy(other) ==
    [self |-> [isOn |-> other.isOn], other |-> other]

\* operator=(const LightControl& other); same is  this == &other
LightControl_copyAssign(self, other, same) ==
    IF ~same
    THEN [self |-> [self EXCEPT !.isOn = other.isOn], other |-> other]
    ELSE [self |-> self, other |-> other]

\* LightControl(LightControl&& other)
LightControl_move(other) ==
    [self |-> [isOn |-> other.isOn], other |-> [other EXCEPT !.isOn = FALSE]]

\* operator=(LightControl&& other); same is  this == &other
LightControl_moveAssign(self, other, same) ==
    IF ~same
    THEN [self |-> [self EXCEPT !.isOn = other.isOn], other |-> [other EXCEPT !.isOn = FALSE]]
    ELSE [self |-> self, other |-> other]

\* Mutant: the copy constructor copies isOn and leaves the temperature at
\* its default.
ThermostatControl_copy_dropsTemperature(other) ==
    [self |-> [isOn |-> other.isOn, temperature |-> 20], other |-> other]

\* ThermostatControl(const ThermostatControl& other)
ThermostatControl_copy(other) ==
    [self |-> [isOn |-> other.isOn, temperature |-> other.temperature], other |-> other]

\* operator=(const ThermostatControl& other); same is  this == &other
ThermostatControl_copyAssign(self, other, same) ==
    IF ~same
    THEN [self |-> [self EXCEPT !.isOn = other.isOn, !.temperature = other.temperature], other |-> other]
    ELSE [self |-> self, other |-> other]

\* ThermostatControl(ThermostatControl&& other)
ThermostatControl_move(other) ==
    [self |-> [isOn |-> other.isOn, temperature |-> other.temperature], other |-> [other EXCEPT !.isOn = FALSE, !.temperature = 0]]

\* operator=(ThermostatControl&& other); same is  this == &other
ThermostatControl_moveAssign(self, other, same) ==
    IF ~same
    THEN [self |-> [self EXCEPT !.isOn = other.isOn, !.temperature = other.temperature], other |-> [other EXCEPT !.isOn = FALSE, !.temperature = 0]]
    ELSE [self |-> self, other |-> other]

\* SmartLockControl(const SmartLockControl& other)
SmartLockControl_copy(other) ==
    [self |-> [isLocked |-> other.isLocked], other |-> other]

\* operator=(const SmartLockControl& other); same is  this == &other
SmartLockControl_copyAssign(self, other, same) ==
    IF ~same
    THEN [self |-> [self EXCEPT !.isLocked = other.isLocked], other |-> other]
    ELSE [self |-> self, other |-> other]

\* SmartLockControl(SmartLockControl&& other)
SmartLockControl_move(other) ==
    [self |-> [isLocked |-> other.isLocked], other |-> [other EXCEPT !.isLocked = TRUE]]

\* operator=(SmartLockControl&& other); same is  this == &other
SmartLockControl_moveAssign(self, other, same) ==
    IF ~same
    THEN [self |-> [self EXCEPT !.isLocked = other.isLocked], other |-> [other EXCEPT !.isLocked = TRUE]]
    ELSE [self |-> self, other |-> other]

\* GarageDoorControl(const GarageDoorControl& other)
GarageDoorControl_copy(other) ==
    [self |-> [isOpen |-> other.isOpen], other |-> other]

\* operator=(const GarageDoorControl& other); same is  this == &other
GarageDoorControl_copyAssign(self, other, same) ==
    IF ~same
    THEN [self |-> [self EXCEPT !.isOpen = other.isOpen], other |-> other]
    ELSE [self |-> self, other |-> other]

\* GarageDoorControl(GarageDoorControl&& other)
GarageDoorControl_move(other) ==
    [self |-> [isOpen |-> other.isOpen], other |-> [other EXCEPT !.isOpen = FALSE]]

\* operator=(GarageDoorControl&& other); same is  this == &other
GarageDoorControl_moveAssign(self, other, same) ==
    IF ~same
    THEN [self |-> [self EXCEPT !.isOpen = other.isOpen], other |-> [other EXCEPT !.isOpen = FALSE]]
    ELSE [self |-> self, other |-> other]

ValueOps == {"copy", "copyAssign", "move", "moveAssign"}

\* Overload resolution: the member of class k that op names.
ValueInvoke(k, op, self, other, same) ==
    CASE k = "LightControl" /\ op = "copy" -> LightControl_copy(other)
      [] k = "LightControl" /\ op = "copyAssign" -> LightControl_copyAssign(self, other, same)
      [] k = "LightControl" /\ op = "move" -> LightControl_move(other)
      [] k = "LightControl" /\ op = "moveAssign" -> LightControl_moveAssign(self, other, same)
      [] k = "ThermostatControl" /\ op = "copy" -> ThermostatControl_copy(other)
      [] k = "ThermostatControl" /\ op = "copyAssign" -> ThermostatControl_copyAssign(self, other, same)
      [] k = "ThermostatControl" /\ op = "move" -> ThermostatControl_move(other)
      [] k = "ThermostatControl" /\ op = "moveAssign" -> ThermostatControl_moveAssign(self, other, same)
      [] k = "SmartLockControl" /\ op = "copy" -> SmartLockControl_copy(other)
      [] k = "SmartLockControl" /\ op = "copyAssign" -> SmartLockControl_copyAssign(self, other, same)
      [] k = "SmartLockControl" /\ op = "move" -> SmartLockControl_move(other)
      [] k = "SmartLockControl" /\ op = "moveAssign" -> SmartLockControl_moveAssign(self, other, same)
      [] k = "GarageDoorControl" /\ op = "copy" -> GarageDoorControl_copy(other)
      [] k = "GarageDoorControl" /\ op = "copyAssign" -> GarageDoorControl_copyAssign(self, other, same)
      [] k = "GarageDoorControl" /\ op = "move" -> GarageDoorControl_move(other)
      [] k = "GarageDoorControl" /\ op = "moveAssign" -> GarageDoorControl_moveAssign(self, other, same)

\* Object i of class k is constructed from, or assigned, object j of the same
\* class.  Nothing is written to the console.  last records the operation
\* with arg = j and pre = object j as it was before.
ValueCall(k, i, j, op) ==
    LET r == ValueInvoke(k, op, dev[k][i], dev[k][j], i = j)
    IN  /\ dev' = [dev EXCEPT ![k] = [x \in Objs |->
                       IF x = i THEN r.self ELSE IF x = j THEN r.other ELSE dev[k][x]]]
        /\ out' = out
        /\ last' = [seq |-> last.seq + 1, kind |-> k, idx |-> i, op |-> op, arg |-> j,
                    pre |-> dev[k][j]]

\* T b(a): a new object in place i, copy-constructed from another object.
ClientCopyConstruct ==
    /\ harness = "client"
    /\ last.seq < MaxCalls
    /\ \E k \in Kinds, i \in Objs, j \in Objs : i # j /\ ValueCall(k, i, j, "copy")
    /\ UNCHANGED <<harness, pc, exit>>

\* b = a, also a = a.
ClientCopyAssign ==
    /\ harness = "client"
    /\ last.seq < MaxCalls
    /\ \E k \in Kinds, i \in Objs, j \in Objs : ValueCall(k, i, j, "copyAssign")
    /\ UNCHANGED <<harness, pc, exit>>

\* T b(std::move(a)): a new object in place i, move-constructed from another.
ClientMoveConstruct ==
    /\ harness = "client"
    /\ last.seq < MaxCalls
    /\ \E k \in Kinds, i \in Objs, j \in Objs : i # j /\ ValueCall(k, i, j, "move")
    /\ UNCHANGED <<harness, pc, exit>>

\* b = std::move(a), also a = std::move(a).
ClientMoveAssign ==
    /\ harness = "client"
    /\ last.seq < MaxCalls
    /\ \E k \in Kinds, i \in Objs, j \in Objs : ValueCall(k, i, j, "moveAssign")
    /\ UNCHANGED <<harness, pc, exit>>

\* A client that also copies and moves its objects.
InitValue == Init /\ harness = "client"

NextValue ==
    \/ ClientTurnOn
    \/ ClientTurnOff
    \/ ClientSetTemperature
    \/ ClientCopyConstruct
    \/ ClientCopyAssign
    \/ ClientMoveConstruct
    \/ ClientMoveAssign

SpecValue == InitValue /\ [][NextValue]_vars

\* A client that also copies its objects (no moves).
NextCopy ==
    \/ ClientTurnOn
    \/ ClientTurnOff
    \/ ClientSetTemperature
    \/ ClientCopyConstruct
    \/ ClientCopyAssign

SpecCopy == InitValue /\ [][NextCopy]_vars

\* ------------------------------------------------------------ direct calls

\* doTurnOn and doTurnOff are public: a client may call them on the concrete
\* object, not through the base class.  r is the result of the member called.
DirectCall(k, i, op, r) ==
    /\ dev' = [dev EXCEPT ![k][i] = r.self]
    /\ out' = out \o r.cout
    /\ last' = [seq |-> last.seq + 1, kind |-> k, idx |-> i, op |-> op, arg |-> 0,
                pre |-> dev[k][i]]

ClientDoTurnOn ==
    /\ harness = "client"
    /\ last.seq < MaxCalls
    /\ \E i \in Objs :
          \/ DirectCall("LightControl", i, "doTurnOn",
                        LightControl_doTurnOn(dev["LightControl"][i]))
          \/ DirectCall("ThermostatControl", i, "doTurnOn",
                        ThermostatControl_doTurnOn(dev["ThermostatControl"][i]))
          \/ DirectCall("SmartLockControl", i, "doTurnOn",
                        SmartLockControl_doTurnOn(dev["SmartLockControl"][i]))
          \/ DirectCall("GarageDoorControl", i, "doTurnOn",
                        GarageDoorControl_doTurnOn(dev["GarageDoorControl"][i]))
    /\ UNCHANGED <<harness, pc, exit>>

ClientDoTurnOff ==
    /\ harness = "client"
    /\ last.seq < MaxCalls
    /\ \E i \in Objs :
          \/ DirectCall("LightControl", i, "doTurnOff",
                        LightControl_doTurnOff(dev["LightControl"][i]))
          \/ DirectCall("ThermostatControl", i, "doTurnOff",
                        ThermostatControl_doTurnOff(dev["ThermostatControl"][i]))
          \/ DirectCall("SmartLockControl", i, "doTurnOff",
                        SmartLockControl_doTurnOff(dev["SmartLockControl"][i]))
          \/ DirectCall("GarageDoorControl", i, "doTurnOff",
                        GarageDoorControl_doTurnOff(dev["GarageDoorControl"][i]))
    /\ UNCHANGED <<harness, pc, exit>>

\* A client that calls through the base class and on the concrete class.
NextDirect ==
    \/ ClientTurnOn
    \/ ClientTurnOff
    \/ ClientDoTurnOn
    \/ ClientDoTurnOff

SpecDirect == InitValue /\ [][NextDirect]_vars

\* ------------------------------------------------------ thermostat owner

\* harness = "thermostat": the owner of one thermostat (object 1, like the
\* local of runTests) turns it on and off and sets its temperature, in any
\* order, for up to MaxCycleCalls calls, long enough for repeated
\* turnOff/turnOn cycles after a temperature has been set.
CycleTemps == {TempLo, 25, TempHi, TempHi + 1}

OwnerTurnOn ==
    /\ harness = "thermostat"
    /\ last.seq < MaxCycleCalls
    /\ Call("ThermostatControl", 1, "turnOn", 0)
    /\ UNCHANGED <<harness, pc, exit>>

OwnerTurnOff ==
    /\ harness = "thermostat"
    /\ last.seq < MaxCycleCalls
    /\ Call("ThermostatControl", 1, "turnOff", 0)
    /\ UNCHANGED <<harness, pc, exit>>

OwnerSetTemperature ==
    /\ harness = "thermostat"
    /\ last.seq < MaxCycleCalls
    /\ \E temp \in CycleTemps : Call("ThermostatControl", 1, "setTemperature", temp)
    /\ UNCHANGED <<harness, pc, exit>>

InitThermostat ==
    /\ dev = [k \in Kinds |-> [i \in Objs |-> Construct(k)]]
    /\ out = <<>>
    /\ last = NoCall
    /\ exit = "running"
    /\ harness = "thermostat"
    /\ pc = 0

NextThermostat ==
    \/ OwnerTurnOn
    \/ OwnerTurnOff
    \/ OwnerSetTemperature

SpecThermostat == InitThermostat /\ [][NextThermostat]_vars

\* ------------------------------------------------------------------ claims

T == "ThermostatControl"

InRange(v) == TempLo <= v /\ v <= TempHi

LastLine == out[Len(out)]

\* C1: running main(), every assert of runTests() holds when control reaches
\* it, and the program is never aborted (it goes on to return 0).
C1_RunTestsAssertsHold ==
    harness \in {"runTests", "runTests_NDEBUG"} =>
        /\ exit # "abort"
        /\ Stmt(pc).op = "assert" => AssertExpr(pc)

\* C2: after setTemperature(v) on a thermostat that was on, with
\* 10 <= v <= 30, the thermostat's temperature is v and it is still on.
C2_AcceptedSetTemperature ==
    (last.op = "setTemperature" /\ last.pre.isOn /\ InRange(last.arg)) =>
        /\ getTemperature(dev[T][last.idx]).ret = last.arg
        /\ dev[T][last.idx].isOn

\* C2 witness: a thermostat that was on and held another value has just
\* accepted the lower boundary value 10.
C2_Witness ==
    /\ last.op = "setTemperature"
    /\ last.pre.isOn
    /\ last.arg = TempLo
    /\ last.pre.temperature # TempLo
    /\ dev[T][last.idx] = [isOn |-> TRUE, temperature |-> TempLo]

\* C3: after a rejected setTemperature(v) (the thermostat was off, or it was on
\* and v < 10 or v > 30) the thermostat's on flag and temperature are those it
\* had before the call.
C3_RejectedSetTemperatureUnchanged ==
    (last.op = "setTemperature" /\ (~last.pre.isOn \/ ~InRange(last.arg))) =>
        /\ dev[T][last.idx] = last.pre
        /\ getTemperature(dev[T][last.idx]).ret = getTemperature(last.pre).ret

\* C3 witness: a thermostat that is on and holds 25 has just been asked for
\* 31, and is still on and holds 25.
C3_Witness ==
    /\ last.op = "setTemperature"
    /\ last.pre.isOn
    /\ last.arg = TempHi + 1
    /\ last.pre.temperature = 25
    /\ dev[T][last.idx] = [isOn |-> TRUE, temperature |-> 25]

\* C4: the outcome of setTemperature(v) is the "thermostat is off" rejection
\* exactly when the thermostat was off (also for v outside [10, 30]), the
\* "Invalid temperature" rejection exactly when it was on and v is outside
\* [10, 30], and the "set to" line exactly when it was on and v is inside.
C4_OffCheckBeforeRangeCheck ==
    last.op = "setTemperature" =>
        /\ Len(out) >= 1
        /\ (LastLine = "Cannot set temperature, thermostat is off.")
               <=> ~last.pre.isOn
        /\ (LastLine = "Invalid temperature. Temperature must be between 10 and 30.")
               <=> (last.pre.isOn /\ ~InRange(last.arg))
        /\ (LastLine = "Thermostat temperature set to: " \o ToString(last.arg))
               <=> (last.pre.isOn /\ InRange(last.arg))

\* C4 witness: a thermostat that was off was asked for a value above 30 and
\* answered with the "thermostat is off" rejection.
C4_Witness ==
    /\ last.op = "setTemperature"
    /\ ~last.pre.isOn
    /\ last.arg > TempHi
    /\ LastLine = "Cannot set temperature, thermostat is off."

\* C5: in every state reached by turnOn, turnOff and setTemperature calls on
\* freshly constructed thermostats, each temperature is within [10, 30], and
\* every step that changes a thermostat's temperature is taken while that
\* thermostat is on.
C5_TemperatureInvariant ==
    /\ [](\A i \in Objs : InRange(dev[T][i].temperature))
    /\ [][\A i \in Objs :
              dev'[T][i].temperature # dev[T][i].temperature => dev[T][i].isOn]_vars

\* C5 witness: a thermostat that is on holds a temperature other than the
\* initial one, set by the call just made.
C5_Witness ==
    /\ last.op = "setTemperature"
    /\ last.pre.isOn
    /\ dev[T][last.idx].temperature # last.pre.temperature
    /\ dev[T][last.idx].temperature = TempHi

\* The documented initial state of each device.
DocumentedInitial(k) ==
    CASE k = "LightControl" -> [isOn |-> FALSE]
      [] k = "ThermostatControl" -> [isOn |-> FALSE, temperature |-> 20]
      [] k = "SmartLockControl" -> [isLocked |-> TRUE]
      [] k = "GarageDoorControl" -> [isOpen |-> FALSE]

\* C6: a freshly constructed device is in its documented initial state: Light
\* off, Thermostat off with temperature 20, SmartLock locked, GarageDoor
\* closed.  (Before any call all objects are fresh; after a declaration in
\* runTests the declared local is.)
C6_InitialState ==
    /\ last.op = "none" => \A k \in Kinds, i \in Objs : dev[k][i] = DocumentedInitial(k)
    /\ last.op = "ctor" => dev[last.kind][last.idx] = DocumentedInitial(last.kind)

\* C6 witness: runTests has just declared its thermostat, which is off and
\* reports 20.
C6_Witness ==
    /\ last.op = "ctor"
    /\ last.kind = T
    /\ ~dev[T][last.idx].isOn
    /\ getTemperature(dev[T][last.idx]).ret = 20

\* What the query of a device reports when the device is "on" (activated).
ReportsOn(k, obj) ==
    CASE k = "LightControl" -> isLightOn(obj).ret = TRUE
      [] k = "ThermostatControl" -> obj.isOn = TRUE
      [] k = "SmartLockControl" -> getLockStatus(obj).ret = FALSE
      [] k = "GarageDoorControl" -> getIsOpen(obj).ret = TRUE

\* C7: whatever the state before, after turnOn the Light is on, the Thermostat
\* is on, the SmartLock is not locked and the GarageDoor is open; after turnOff
\* the Light is off, the Thermostat is off, the SmartLock is locked and the
\* GarageDoor is closed.
C7_TurnOnTurnOffSetFlag ==
    /\ last.op = "turnOn" => ReportsOn(last.kind, dev[last.kind][last.idx])
    /\ last.op = "turnOff" => ~ReportsOn(last.kind, dev[last.kind][last.idx])

\* C7 witness: a smart lock that was already unlocked has been turned on again
\* and is not locked.
C7_Witness ==
    /\ last.op = "turnOn"
    /\ last.kind = "SmartLockControl"
    /\ last.pre.isLocked = FALSE
    /\ dev["SmartLockControl"][last.idx].isLocked = FALSE

RoundTripKinds == {"LightControl", "SmartLockControl", "GarageDoorControl"}

\* A step that calls turnOff on the object whose turnOn was the call before:
\* last.pre is then the object's state s before the turnOn.
TurnOnThenTurnOff ==
    /\ last.op = "turnOn"
    /\ last'.op = "turnOff"
    /\ last'.seq = last.seq + 1
    /\ last'.kind = last.kind
    /\ last'.idx = last.idx
    /\ last.kind \in RoundTripKinds

\* C8 as stated: for Light, SmartLock and GarageDoor and every state s of the
\* device, turnOn followed by turnOff leaves the device in state s.
C8_RoundTripFromAnyState ==
    [][TurnOnThenTurnOff => dev'[last.kind][last.idx] = last.pre]_vars

\* C8 amended: turnOn followed by turnOff leaves a Light, SmartLock or
\* GarageDoor in its off state (Light off, SmartLock locked, GarageDoor
\* closed), so the device is back in s exactly when s was the off state.
C8_RoundTripEndsOff ==
    [][TurnOnThenTurnOff =>
          /\ dev'[last.kind][last.idx] = DocumentedInitial(last.kind)
          /\ (dev'[last.kind][last.idx] = last.pre) <=> ~ReportsOn(last.kind, last.pre)]_vars

\* C8 witness: the only two calls so far turned a garage door on and off
\* again, and it is closed as it was at first.
C8_Witness ==
    /\ last.seq = 2
    /\ last.op = "turnOff"
    /\ last.kind = "GarageDoorControl"
    /\ last.pre = [isOpen |-> TRUE]
    /\ out = <<"Garage Door is OPEN", "Garage Door is CLOSED">>
    /\ dev["GarageDoorControl"][last.idx] = [isOpen |-> FALSE]

\* The documented console line of a call c (a value of last).
DocumentedLine(c) ==
    CASE c.op = "turnOn" /\ c.kind = "LightControl" -> "Light is ON"
      [] c.op = "turnOff" /\ c.kind = "LightControl" -> "Light is OFF"
      [] c.op = "turnOn" /\ c.kind = "ThermostatControl" -> "Thermostat is ON"
      [] c.op = "turnOff" /\ c.kind = "ThermostatControl" -> "Thermostat is OFF"
      [] c.op = "turnOn" /\ c.kind = "SmartLockControl" -> "Smart Lock is UNLOCKED"
      [] c.op = "turnOff" /\ c.kind = "SmartLockControl" -> "Smart Lock is LOCKED"
      [] c.op = "turnOn" /\ c.kind = "GarageDoorControl" -> "Garage Door is OPEN"
      [] c.op = "turnOff" /\ c.kind = "GarageDoorControl" -> "Garage Door is CLOSED"
      [] c.op = "setTemperature" /\ ~c.pre.isOn ->
             "Cannot set temperature, thermostat is off."
      [] c.op = "setTemperature" /\ c.pre.isOn /\ ~InRange(c.arg) ->
             "Invalid temperature. Temperature must be between 10 and 30."
      [] c.op = "setTemperature" /\ c.pre.isOn /\ InRange(c.arg) ->
             "Thermostat temperature set to: " \o ToString(c.arg)

\* C9: every call of turnOn, turnOff or setTemperature appends exactly one
\* line to the console, the documented line of that operation and outcome; a
\* step that evaluates an assert, and so calls a query, appends nothing.
C9_OneLinePerCall ==
    [][/\ (last' # last /\ last'.op \in {"turnOn", "turnOff", "setTemperature"})
              => out' = Append(out, DocumentedLine(last'))
       /\ (harness = "runTests" /\ exit = "running" /\ Stmt(pc).op = "assert")
              => out' = out]_vars

\* C9 witness: runTests has turned its light on and off and evaluated the
\* assert after each call; the console holds the two lines of the two calls.
C9_Witness ==
    /\ harness = "runTests"
    /\ pc = 237
    /\ last.op = "turnOff"
    /\ last.kind = "LightControl"
    /\ out = <<"Light is ON", "Light is OFF">>

\* C10: a call on one object leaves every other object, of the same class or
\* of another, as it was.
C10_OtherObjectsUnchanged ==
    [][\A k \in Kinds, i \in Objs :
          (last' # last /\ <<k, i>> # <<last'.kind, last'.idx>>) => dev'[k][i] = dev[k][i]]_vars

\* C10 witness: the call just made changed its receiver, while another object
\* of the same class is in a different state and an object of another class
\* is in a state other than its initial one.
C10_Witness ==
    /\ last.op \in {"turnOn", "turnOff", "setTemperature"}
    /\ dev[last.kind][last.idx] # last.pre
    /\ \E j \in Objs \ {last.idx} : dev[last.kind][j] # dev[last.kind][last.idx]
    /\ \E k \in Kinds \ {last.kind}, j \in Objs : dev[k][j] # DocumentedInitial(k)

CallOps == {"turnOn", "turnOff", "setTemperature"}

CopyOps == {"copy", "copyAssign"}

\* C11: a copy construction or copy assignment leaves the copy in the state
\* the source had at that time and leaves the source unchanged, and any later
\* call on one object (the copy or the source) leaves every other object of
\* the class (the source or the copy) unchanged.
C11_CopyValueSemantics ==
    [][/\ (last' # last /\ last'.op \in CopyOps) =>
              /\ dev'[last'.kind][last'.idx] = dev[last'.kind][last'.arg]
              /\ dev'[last'.kind][last'.arg] = dev[last'.kind][last'.arg]
       /\ (last' # last /\ last'.op \in CallOps) =>
              \A j \in Objs \ {last'.idx} : dev'[last'.kind][j] = dev[last'.kind][j]]_vars

\* C11 witness: three operations have written only "Thermostat is ON" and
\* "Thermostat is OFF", so one of them was a copy of the thermostat that was
\* on; the last one turned one of the two off and the other is still on.
C11_Witness ==
    /\ last.seq = 3
    /\ out = <<"Thermostat is ON", "Thermostat is OFF">>
    /\ last.op = "turnOff"
    /\ last.kind = T
    /\ last.pre.isOn
    /\ ~dev[T][last.idx].isOn
    /\ \E j \in Objs \ {last.idx} : dev[T][j].isOn

\* C12: turnOn() and turnOff() of the base class resolve to the concrete
\* class's own doTurnOn() and doTurnOff(): whenever doTurnOn (doTurnOff) has
\* been called directly on an object, the object's new state and the line
\* written are those that turnOn (turnOff) gives for the same class and the
\* same state before; and the line a turnOn or turnOff call writes is never
\* the line of another device type.
C12_EntryPointsResolveToDerived ==
    /\ last.op = "doTurnOn" =>
           /\ dev[last.kind][last.idx] = turnOn(last.kind, last.pre).self
           /\ Len(out) >= 1
           /\ <<LastLine>> = turnOn(last.kind, last.pre).cout
    /\ last.op = "doTurnOff" =>
           /\ dev[last.kind][last.idx] = turnOff(last.kind, last.pre).self
           /\ Len(out) >= 1
           /\ <<LastLine>> = turnOff(last.kind, last.pre).cout
    /\ last.op \in {"turnOn", "turnOff"} =>
           \A k \in Kinds \ {last.kind} :
               LastLine # DocumentedLine([op |-> last.op, kind |-> k])

\* C12 witness: doTurnOff has been called directly on an unlocked smart lock,
\* which is now locked, and "Smart Lock is LOCKED" was written.
C12_Witness ==
    /\ last.op = "doTurnOff"
    /\ last.kind = "SmartLockControl"
    /\ last.pre.isLocked = FALSE
    /\ dev["SmartLockControl"][last.idx].isLocked = TRUE
    /\ LastLine = "Smart Lock is LOCKED"

\* C13: a thermostat's turnOn and turnOff change only the on flag: after
\* either call the temperature is the one before the call (turning off does
\* not reset it to 20, turning on again does not either), so a temperature
\* set while on is kept across any number of turnOff/turnOn cycles, and it
\* is always the argument of the latest accepted setTemperature (20 if there
\* was none).
C13_TurnOnTurnOffKeepTemperature ==
    /\ (last.kind = T /\ last.op \in {"turnOn", "turnOff"}) =>
           /\ getTemperature(dev[T][last.idx]).ret = getTemperature(last.pre).ret
           /\ dev[T][last.idx] = [last.pre EXCEPT !.isOn = (last.op = "turnOn")]
    /\ harness = "thermostat" =>
           LET set == {n \in 1..Len(out) :
                          \E t \in CycleTemps :
                              out[n] = "Thermostat temperature set to: " \o ToString(t)}
           IN  /\ set = {} => getTemperature(dev[T][1]).ret = 20
               /\ \A t \in CycleTemps :
                      (set # {} /\ out[CHOOSE n \in set : \A m \in set : m <= n]
                                       = "Thermostat temperature set to: " \o ToString(t))
                          => getTemperature(dev[T][1]).ret = t

\* C13 witness: a thermostat was turned on, set to 25, and then turned off
\* and on twice; it is on again and still holds 25.
C13_Witness ==
    /\ harness = "thermostat"
    /\ out = <<"Thermostat is ON", "Thermostat temperature set to: 25",
               "Thermostat is OFF", "Thermostat is ON",
               "Thermostat is OFF", "Thermostat is ON">>
    /\ last.op = "turnOn"
    /\ last.pre = [isOn |-> FALSE, temperature |-> 25]
    /\ dev[T][1] = [isOn |-> TRUE, temperature |-> 25]

\* C14: with move construction and move assignment among the operations,
\* every thermostat, a moved-from one included, holds a temperature within
\* [10, 30] in every reachable state.
C14_TemperatureInvariantWithMoves ==
    \A i \in Objs : InRange(getTemperature(dev[T][i]).ret)

\* C15: after a move construction or move assignment between two distinct
\* objects the destination holds the state the source had before and the
\* moved-from source is in the state of a default-constructed device; a self
\* move-assignment or self copy-assignment leaves the object unchanged.
C15_MoveLeavesSourceDefault ==
    /\ (last.op \in {"move", "moveAssign"} /\ last.idx # last.arg) =>
           /\ dev[last.kind][last.idx] = last.pre
           /\ dev[last.kind][last.arg] = DocumentedInitial(last.kind)
    /\ (last.op \in {"moveAssign", "copyAssign"} /\ last.idx = last.arg) =>
           dev[last.kind][last.idx] = last.pre

====
